---- MODULE Spec2Model ----
(***************************************************************************)
(* A model of witchery (src/src/witchery/__init__.py): the name analysis   *)
(* (find_defined_variables, find_variables, find_missing_variables), the   *)
(* placeholder generator (generate_magic_code) and class Empty, and the    *)
(* tree rewriters.                                                         *)
(*                                                                         *)
(* Every function of the library is a pure function of its arguments, so   *)
(* each family of functions has its own specification: Init draws the      *)
(* arguments from a bounded set and one action per function applies it.    *)
(* A snippet is held as the module body ast.parse returns for it (a        *)
(* sequence of statement nodes); where a claim depends on the text (a      *)
(* result that is parsed again, a call hint that may not parse) the text   *)
(* and its parser are modelled as well.                                    *)
(***************************************************************************)
EXTENDS Integers, Sequences, FiniteSets, TLC

VARIABLES
    pc,      \* which call has been made on the arguments
    code,    \* the code argument: a module body, or a text where stated
    arg,     \* the other arguments of the call
    out,     \* what the call returned
    i        \* the loop index of add_function_call; the items an iteration yielded

vars == <<pc, code, arg, out, i>>

\* Longest module body (number of top-level statements) drawn as an input.
MaxStmts == 3

(***************************************************************************)
(* AST nodes.  One record shape for every node class; a field a class does *)
(* not have holds its empty value.  head holds the child nodes that are    *)
(* not statements of a block (targets and value, test, target and iter,    *)
(* aliases, arguments), body and orelse the two statement lists.           *)
(***************************************************************************)
Node(kind) ==
    [kind |-> kind, id |-> "", name |-> "", module |-> "", asname |-> "",
     ctx |-> "", level |-> 0, ntargets |-> 0,
     head |-> <<>>, body |-> <<>>, orelse |-> <<>>]

\* list(ast.iter_child_nodes(node)): the children in the order of _fields
iter_child_nodes(node) == node.head \o node.body \o node.orelse

Name(id, ctx) == [Node("Name") EXCEPT !.id = id, !.ctx = ctx]
Constant(v) == [Node("Constant") EXCEPT !.name = v]
Pass == Node("Pass")
\* value[slice]
Subscript(value, ctx) ==
    [Node("Subscript") EXCEPT !.ctx = ctx, !.head = <<value, Constant("0")>>]
Tuple(elts, ctx) == [Node("Tuple") EXCEPT !.ctx = ctx, !.head = elts]
Attribute(value, attr) ==
    [Node("Attribute") EXCEPT !.name = attr, !.ctx = "Load", !.head = <<value>>]
Call(func, args) == [Node("Call") EXCEPT !.head = <<func>> \o args]
Expr(value) == [Node("Expr") EXCEPT !.head = <<value>>]
\* targets = value
Assign(targets, value) ==
    [Node("Assign") EXCEPT !.ntargets = Len(targets), !.head = targets \o <<value>>]
\* target: annotation = value
AnnAssign(target, annotation, value) ==
    [Node("AnnAssign") EXCEPT !.head = <<target, annotation, value>>]
Delete(targets) == [Node("Delete") EXCEPT !.head = targets]
alias(name, asname) == [Node("alias") EXCEPT !.name = name, !.asname = asname]
Import(names) == [Node("Import") EXCEPT !.head = names]
\* from <level dots><module> import names; module "" is Python's None
ImportFrom(module, names, level) ==
    [Node("ImportFrom") EXCEPT !.module = module, !.level = level, !.head = names]
\* for target in iter: body
For(target, iter, body) ==
    [Node("For") EXCEPT !.head = <<target, iter>>, !.body = body]
\* if test: body else: orelse
If(test, body, orelse) ==
    [Node("If") EXCEPT !.head = <<test>>, !.body = body, !.orelse = orelse]
\* def name(): body
FunctionDef(name, body) ==
    [Node("FunctionDef") EXCEPT !.name = name, !.head = <<Node("arguments")>>,
                                !.body = body]
ClassDef(name, body) == [Node("ClassDef") EXCEPT !.name = name, !.body = body]
Module(body) == [Node("Module") EXCEPT !.body = body]

\* All sequences over S of length 0..n.
SeqsUpTo(S, n) == UNION {[1..k -> S] : k \in 0..n}

\* TRUE for every v.  TLC evaluates an operator's argument when it is first
\* used; a recursion that tests Evaluated(v) before it recurses has v
\* computed at that point, which keeps the evaluation stack shallow.
Evaluated(v) == v = v

(***************************************************************************)
(* The environment of the name analysis.                                   *)
(***************************************************************************)
\* builtins.__dict__.keys(): the part of it the snippets below mention
BUILTINS == {"print", "bool", "str"}

\* importlib.import_module(name): the public names of dir(module) for a
\* module that is installed, the exception its own code raises for one
\* that fails while it is imported, ImportError for one that is not
\* installed.
import_module(module_name) ==
    CASE module_name = "typing" ->
             [ok |-> TRUE, dir |-> {"Any", "TypeVar"}, raised |-> ""]
      [] module_name = "math" -> [ok |-> TRUE, dir |-> {"floor"}, raised |-> ""]
      [] module_name = "broken" -> [ok |-> FALSE, dir |-> {}, raised |-> "RuntimeError"]
      [] OTHER -> [ok |-> FALSE, dir |-> {}, raised |-> "ImportError"]

(***************************************************************************)
(* find_defined_variables                                                  *)
(***************************************************************************)
\* node.targets if hasattr(node, "targets") else [node.target]
targets_of(node) ==
    IF node.kind = "Assign" THEN SubSeq(node.head, 1, node.ntargets)
    ELSE <<node.head[1]>>

RECURSIVE handle_elts(_)
\* The names the loop over elts adds: a Subscript is replaced by its value
\* once, a Tuple is recursed into, anything else adds its id if it has one
\* (only a Name has).
handle_elts(elts) ==
    IF elts = <<>> THEN {}
    ELSE LET n0 == Head(elts)
             node == IF n0.kind = "Subscript" THEN n0.head[1] ELSE n0
             here == IF node.kind = "Tuple" THEN handle_elts(node.head)
                     ELSE IF node.kind = "Name" /\ node.id # "" THEN {node.id}
                     ELSE {}
         IN here \cup handle_elts(Tail(elts))

collect_definitions(node, variables) ==
    IF node.kind \notin {"Assign", "AnnAssign"} THEN variables
    ELSE variables \cup handle_elts(targets_of(node))

RECURSIVE traverse_definitions(_, _)
RECURSIVE traverse_definitions_kids(_, _)
\* traverse_ast(node, collect_definitions): the node, then its children
traverse_definitions(node, variables) ==
    LET collected == collect_definitions(node, variables) IN
    IF Evaluated(collected) THEN traverse_definitions_kids(iter_child_nodes(node), collected)
    ELSE collected

traverse_definitions_kids(kids, variables) ==
    IF kids = <<>> THEN variables
    ELSE traverse_definitions_kids(Tail(kids),
                                   traverse_definitions(Head(kids), variables))

find_defined_variables(body) == traverse_definitions(Module(body), {})

(***************************************************************************)
(* find_variables.  st is the five sets of the closure: used_variables,    *)
(* defined_variables, imported_modules, imported_names, loop_variables.    *)
(***************************************************************************)
EmptySets ==
    [used_variables |-> {}, defined_variables |-> {}, imported_modules |-> {},
     imported_names |-> {}, loop_variables |-> {},
     raised |-> ""]    \* the exception that ended the traversal, if any

collect_variables(node, st) ==
    IF node.kind # "Name" THEN st
    ELSE IF node.ctx = "Load"
         THEN [st EXCEPT !.used_variables = @ \cup {node.id}]
    ELSE IF node.ctx = "Store"
         THEN [st EXCEPT !.defined_variables = @ \cup {node.id}]
    ELSE IF node.ctx = "Del"
         THEN [st EXCEPT !.defined_variables = @ \ {node.id}]
    ELSE st

RECURSIVE fv_handle_elts(_)
\* find_variables' own copy of handle_elts
fv_handle_elts(elts) ==
    IF elts = <<>> THEN {}
    ELSE LET n0 == Head(elts)
             node == IF n0.kind = "Subscript" THEN n0.head[1] ELSE n0
             here == IF node.kind = "Tuple" THEN fv_handle_elts(node.head)
                     ELSE IF node.kind = "Name" /\ node.id # "" THEN {node.id}
                     ELSE {}
         IN here \cup fv_handle_elts(Tail(elts))

\* A copy that forgets to replace a Subscript target by its value.
fv_collect_definitions_no_subscript(node, st) ==
    IF node.kind \notin {"Assign", "AnnAssign"} THEN st
    ELSE [st EXCEPT !.defined_variables =
              @ \cup fv_handle_elts(SelectSeq(targets_of(node),
                                              LAMBDA t : t.kind # "Subscript"))]

\* find_variables' own copy of collect_definitions
fv_collect_definitions(node, st) ==
    IF node.kind \notin {"Assign", "AnnAssign"} THEN st
    ELSE [st EXCEPT !.defined_variables = @ \cup fv_handle_elts(targets_of(node))]

\* alias.asname or alias.name, for every alias of the statement
bound_names(node) ==
    {IF node.head[k].asname # "" THEN node.head[k].asname ELSE node.head[k].name :
        k \in 1..Len(node.head)}

collect_imports(node, st) ==
    IF node.kind = "Import"
    THEN [st EXCEPT !.imported_names =
              @ \cup {node.head[k].name : k \in 1..Len(node.head)}]
    ELSE IF node.kind = "ImportFrom" /\ node.module # ""
    THEN LET imported_module == import_module(node.module) IN
         IF imported_module.raised = "ImportError"
         THEN st                      \* contextlib.suppress(ImportError)
         ELSE IF ~imported_module.ok
         THEN [st EXCEPT !.raised = imported_module.raised]
         ELSE IF node.head[1].name = "*"
         THEN [st EXCEPT !.imported_names = @ \cup imported_module.dir]
         ELSE [st EXCEPT !.imported_names = @ \cup bound_names(node)]
    ELSE st

collect_imported_names(node, st) ==
    IF node.kind = "ImportFrom" /\ node.module # ""
    THEN [st EXCEPT !.imported_names = @ \cup bound_names(node)]
    ELSE st

collect_loop_variables(node, st) ==
    IF node.kind = "For" /\ node.head[1].kind = "Name"
    THEN [st EXCEPT !.loop_variables = @ \cup {node.head[1].id}]
    ELSE st

collect_everything(node, st) ==
    collect_loop_variables(node,
      collect_imports(node,
        collect_imported_names(node,
          fv_collect_definitions(node,
            collect_variables(node, st)))))

RECURSIVE traverse_everything(_, _)
RECURSIVE traverse_everything_kids(_, _)
\* traverse_ast(tree, collect_everything)
traverse_everything(node, st) ==
    LET collected == collect_everything(node, st) IN
    IF st.raised # "" THEN st       \* an exception ended the traversal
    ELSE IF Evaluated(collected)
    THEN traverse_everything_kids(iter_child_nodes(node), collected)
    ELSE collected

traverse_everything_kids(kids, st) ==
    IF kids = <<>> THEN st
    ELSE traverse_everything_kids(Tail(kids), traverse_everything(Head(kids), st))

\* (used_variables, all_variables)
find_variables(body, with_builtins) ==
    LET st == traverse_everything(Module(body), EmptySets)
        all_variables == st.defined_variables \cup st.imported_modules
                         \cup st.loop_variables \cup st.imported_names
                         \cup (IF with_builtins THEN BUILTINS ELSE {})
    IN <<st.used_variables, all_variables>>

\* find_variables(code, with_builtins): the tuple it returns, or the
\* exception that leaves it
find_variables_call(body, with_builtins) ==
    LET st == traverse_everything(Module(body), EmptySets) IN
    IF st.raised # ""
    THEN [raised |-> st.raised, used_variables |-> {}, all_variables |-> {}]
    ELSE [raised |-> "",
          used_variables |-> find_variables(body, with_builtins)[1],
          all_variables |-> find_variables(body, with_builtins)[2]]

find_missing_variables(body) ==
    LET used_variables == find_variables(body, TRUE)[1]
        defined_variables == find_variables(body, TRUE)[2]
    IN {var \in used_variables : var \notin defined_variables}

(***************************************************************************)
(* generate_magic_code: the statements of the fragment it returns.         *)
(***************************************************************************)
RECURSIVE SetToSeq(_)
\* the iteration of a set, in one of its orders
SetToSeq(S) ==
    IF S = {} THEN <<>>
    ELSE LET x == CHOOSE y \in S : TRUE IN <<x>> \o SetToSeq(S \ {x})

\* "import typing; from typing import Any; from typing_extensions import
\* Self; T = typing.TypeVar('T', bound=Any); "
MagicHeader ==
    << Import(<<alias("typing", "")>>),
       ImportFrom("typing", <<alias("Any", "")>>, 0),
       ImportFrom("typing_extensions", <<alias("Self", "")>>, 0),
       Assign(<<Name("T", "Store")>>,
              Call(Attribute(Name("typing", "Load"), "TypeVar"),
                   <<Constant("T"), Name("Any", "Load")>>)) >>

\* inspect.getsource(Empty): the class statement, with the names its
\* annotations and bodies load
EmptySource ==
    ClassDef("Empty",
             << Expr(Name("Any", "Load")), Expr(Name("bool", "Load")),
                Expr(Name("str", "Load")), Expr(Name("Self", "Load")),
                Expr(Attribute(Name("typing", "Load"), "Generator")),
                Expr(Name("T", "Load")), Expr(Name("self", "Load")),
                Expr(Name("other", "Load")) >>)

\* A fragment that constructs the instance and binds no name to it.
generate_magic_code_no_binding(missing_vars) ==
    MagicHeader \o <<EmptySource>>
    \o <<Assign(<<Name("empty", "Store")>>, Call(Name("Empty", "Load"), <<>>))>>

generate_magic_code(missing_vars) ==
    MagicHeader \o <<EmptySource>>
    \o <<Assign(<<Name("empty", "Store")>>, Call(Name("Empty", "Load"), <<>>))>>
    \o [k \in 1..Cardinality(missing_vars) |->
           Assign(<<Name(SetToSeq(missing_vars)[k], "Store")>>,
                  Name("empty", "Load"))]

(***************************************************************************)
(* The specification of the name analysis: a snippet over the names x and  *)
(* y, analysed as it is or after the fragment for a set of names has been  *)
(* appended to it.                                                         *)
(***************************************************************************)
VarNames == {"x", "y"}

VarStmts ==
    { Assign(<<Name("x", "Store")>>, Constant("1")),              \* x = 1
      Assign(<<Subscript(Name("x", "Load"), "Store")>>, Constant("1")),
                                                                   \* x[0] = 1
      Assign(<<Tuple(<<Name("x", "Store"), Name("y", "Store")>>, "Store")>>,
             Name("y", "Load")),                                   \* x, y = y
      AnnAssign(Name("y", "Store"), Name("str", "Load"), Constant("1")),
                                                                   \* y: str = 1
      Delete(<<Name("x", "Del")>>),                                \* del x
      Delete(<<Name("y", "Del")>>),                                \* del y
      For(Name("x", "Store"), Tuple(<<>>, "Load"), <<Pass>>),      \* for x in (): pass
      Import(<<alias("x", "")>>),                                  \* import x
      ImportFrom("pydal", <<alias("DAL", "y")>>, 0),               \* from pydal import DAL as y
      Expr(Call(Name("print", "Load"), <<Name("x", "Load")>>)) }   \* print(x)

InitVars ==
    /\ pc = "parsed"
    /\ code \in SeqsUpTo(VarStmts, MaxStmts)
    /\ arg = [missing_vars |-> {}, with_builtins |-> TRUE]
    /\ out = <<>>    \* the tuple of the values returned: nothing yet
    /\ i = 0

\* find_defined_variables(code)
FindDefinedVariables ==
    /\ pc \in {"parsed", "patched"}
    /\ pc' = "find_defined_variables"
    /\ out' = <<find_defined_variables(code)>>
    /\ UNCHANGED <<code, arg, i>>

\* find_variables(code, with_builtins)
FindVariables ==
    /\ pc \in {"parsed", "patched"}
    /\ \E with_builtins \in BOOLEAN :
          /\ out' = find_variables(code, with_builtins)
          /\ arg' = [arg EXCEPT !.with_builtins = with_builtins]
    /\ pc' = "find_variables"
    /\ UNCHANGED <<code, i>>

\* find_missing_variables(code)
FindMissingVariables ==
    /\ pc \in {"parsed", "patched"}
    /\ pc' = "find_missing_variables"
    /\ out' = <<find_missing_variables(code)>>
    /\ UNCHANGED <<code, arg, i>>

\* code + generate_magic_code(missing_vars)
GenerateMagicCode ==
    /\ pc = "parsed"
    /\ \E missing_vars \in SUBSET VarNames :
          /\ code' = code \o generate_magic_code(missing_vars)
          /\ arg' = [arg EXCEPT !.missing_vars = missing_vars]
    /\ pc' = "patched"
    /\ UNCHANGED <<out, i>>

NextVars ==
    \/ FindDefinedVariables
    \/ FindVariables
    \/ FindMissingVariables
    \/ GenerateMagicCode

SpecVars == InitVars /\ [][NextVars]_vars

(***************************************************************************)
(* The claims about the name analysis.                                     *)
(***************************************************************************)
RECURSIVE preorder(_)
RECURSIVE preorder_kids(_)
\* The nodes of a tree in the order traverse_ast visits them.
preorder(node) == <<node>> \o preorder_kids(iter_child_nodes(node))

preorder_kids(kids) ==
    IF kids = <<>> THEN <<>>
    ELSE preorder(Head(kids)) \o preorder_kids(Tail(kids))

\* node is an assignment with n among the names of its targets
Assigns(node, n) ==
    /\ node.kind \in {"Assign", "AnnAssign"}
    /\ n \in handle_elts(targets_of(node))

\* node binds n: a Store reference, an assignment to it or into it, an
\* import alias
Binds(node, n) ==
    \/ node = Name(n, "Store")
    \/ Assigns(node, n)
    \/ /\ node.kind = "alias"
       /\ n = (IF node.asname # "" THEN node.asname ELSE node.name)

\* `del n` comes after every assignment to n
DeletedAfterLastAssignment(n, body) ==
    LET ev == preorder(Module(body)) IN
    \E d \in 1..Len(ev) :
        /\ ev[d] = Name(n, "Del")
        /\ \A a \in 1..Len(ev) : Assigns(ev[a], n) => a < d

\* n is bound, later deleted, and not bound again after that
BoundThenDeleted(n, body) ==
    LET ev == preorder(Module(body)) IN
    \E b, d \in 1..Len(ev) :
        /\ b < d
        /\ Binds(ev[b], n)
        /\ ev[d] = Name(n, "Del")
        /\ \A k \in (d + 1)..Len(ev) : ~Binds(ev[k], n)

\* n is loaded after its last deletion
UsedAfterDelete(n, body) ==
    LET ev == preorder(Module(body)) IN
    \E d, u \in 1..Len(ev) :
        d < u /\ ev[d] = Name(n, "Del") /\ ev[u] = Name(n, "Load")

C3_DeleteRevokesBinding ==
    \A n \in VarNames \ BUILTINS :
        BoundThenDeleted(n, code) =>
            /\ pc = "find_variables" => n \notin out[2]
            /\ pc = "find_missing_variables" /\ UsedAfterDelete(n, code)
                   => n \in out[1]

\* the snippet the fragment was appended to
OriginalCode ==
    SubSeq(code, 1, Len(code) - Len(generate_magic_code(arg.missing_vars)))

IsCompound(node) == node.kind \in {"If", "For", "FunctionDef", "ClassDef"}

Line(ind, kind, node) == [ind |-> ind, kind |-> kind, node |-> node]

\* the header of a compound statement: the statement without its blocks
Header(node) == [node EXCEPT !.body = <<>>, !.orelse = <<>>]

RECURSIVE unparse_block(_, _)
\* The lines of a statement list at one indentation level.  (ast.unparse
\* writes `elif` for an orelse that is a single `if`; it is read back as
\* the same tree as the `else:` block written here.)
unparse_block(stmts, ind) ==
    IF stmts = <<>> THEN <<>>
    ELSE LET node == Head(stmts)
             lines == IF ~IsCompound(node) THEN <<Line(ind, "stmt", node)>>
                      ELSE <<Line(ind, "header", Header(node))>>
                           \o unparse_block(node.body, ind + 1)
                           \o (IF node.orelse = <<>> THEN <<>>
                               ELSE <<Line(ind, "else", Node("else"))>>
                                    \o unparse_block(node.orelse, ind + 1))
         IN lines \o unparse_block(Tail(stmts), ind)

\* ast.unparse(tree), tree a Module
ast_unparse(tree) == unparse_block(tree.body, 0)

ParseError == [ok |-> FALSE, stmts |-> <<>>, pos |-> 0]

\* a block must follow at position pos: a line indented one level deeper
\* than ind (the only deeper indentation ast.unparse writes)
BlockAt(lines, pos, ind) ==
    pos <= Len(lines) /\ lines[pos].ind = ind + 1 /\ lines[pos].kind # "else"

RECURSIVE parse_block(_, _, _)
\* The statements of the block at level ind that starts at pos, and the
\* position after it.  Python's parser refuses a compound statement whose
\* header or `else:` is not followed by an indented block, an unexpected
\* indent, and an `else:` that follows no block of its statement.
parse_block(lines, pos, ind) ==
    IF pos > Len(lines) \/ lines[pos].ind < ind
    THEN [ok |-> TRUE, stmts |-> <<>>, pos |-> pos]
    ELSE IF lines[pos].ind > ind \/ lines[pos].kind = "else" THEN ParseError
    ELSE IF lines[pos].kind = "stmt"
    THEN LET rest == parse_block(lines, pos + 1, ind) IN
         IF ~rest.ok THEN ParseError
         ELSE [rest EXCEPT !.stmts = <<lines[pos].node>> \o @]
    ELSE IF ~BlockAt(lines, pos + 1, ind) THEN ParseError
    ELSE LET body == parse_block(lines, pos + 1, ind + 1)
             has_else == /\ body.ok
                         /\ body.pos <= Len(lines)
                         /\ lines[body.pos].ind = ind
                         /\ lines[body.pos].kind = "else"
                         /\ lines[pos].node.kind \in {"If", "For"}
             orelse == IF has_else /\ BlockAt(lines, body.pos + 1, ind)
                       THEN parse_block(lines, body.pos + 1, ind + 1)
                       ELSE ParseError
             after == IF has_else THEN orelse.pos ELSE body.pos
             rest == parse_block(lines, after, ind)
         IN IF ~body.ok \/ (has_else /\ ~orelse.ok) THEN ParseError
            ELSE IF ~rest.ok THEN ParseError
            ELSE [rest EXCEPT !.stmts =
                      <<[lines[pos].node EXCEPT
                            !.body = body.stmts,
                            !.orelse = IF has_else THEN orelse.stmts ELSE <<>>]>>
                      \o @]

\* ast.parse(code): the module body, or SyntaxError (ok = FALSE)
ast_parse(text) ==
    LET r == parse_block(text, 1, 0) IN
    IF r.ok /\ r.pos > Len(text) THEN r ELSE ParseError

\* what a rewriter returns: the text, or the exception it raised
Returned(text) == [raised |-> "", text |-> text]
Raised(exception) == [raised |-> exception, text |-> <<>>]

(***************************************************************************)
(* remove_specific_variables                                               *)
(***************************************************************************)
\* should_remove(var_name)
should_remove(var_name, to_remove) == var_name \in to_remove

\* hasattr(node, "body"), for the statement classes modelled
has_body(node) ==
    node.kind \in {"Module", "FunctionDef", "ClassDef", "If", "For"}

\* The first test of remove_desired_variable_refs with `all` for `any`.
is_desired_variable_ref_all(node, to_remove) ==
    IF node.kind = "Assign"
    THEN \A k \in 1..node.ntargets :
            /\ node.head[k].kind = "Name"
            /\ should_remove(node.head[k].id, to_remove)
    ELSE /\ node.kind \in {"FunctionDef", "ClassDef"}
         /\ should_remove(node.name, to_remove)

\* the first test of remove_desired_variable_refs: the node is dropped
is_desired_variable_ref(node, to_remove) ==
    IF node.kind = "Assign"
    THEN \E k \in 1..node.ntargets :
            /\ node.head[k].kind = "Name"
            /\ should_remove(node.head[k].id, to_remove)
    ELSE /\ node.kind \in {"FunctionDef", "ClassDef"}
         /\ should_remove(node.name, to_remove)

RECURSIVE remove_desired_variable_refs(_, _)
RECURSIVE remove_children(_, _, _, _)
\* [raised, removed, node]: ValueError was raised, or None was returned,
\* or the node was returned with its children changed in place.
remove_desired_variable_refs(node, to_remove) ==
    IF is_desired_variable_ref(node, to_remove)
    THEN [raised |-> FALSE, removed |-> TRUE, node |-> node]
    ELSE LET head == remove_children(node.head, to_remove, FALSE, has_body(node))
             body == remove_children(node.body, to_remove, TRUE, has_body(node))
             orelse == remove_children(node.orelse, to_remove, FALSE, has_body(node))
         IN IF head.raised \/ body.raised \/ orelse.raised
            THEN [raised |-> TRUE, removed |-> FALSE, node |-> node]
            ELSE [raised |-> FALSE, removed |-> FALSE,
                  node |-> [node EXCEPT !.head = head.nodes, !.body = body.nodes,
                                        !.orelse = orelse.nodes]]

\* The loop over list(ast.iter_child_nodes(node)), for the children of one
\* field: a child that came back None is removed from node.body if the
\* node has a body; list.remove raises ValueError for a child that is not
\* in node.body.
remove_children(children, to_remove, in_body, node_has_body) ==
    IF children = <<>> THEN [raised |-> FALSE, nodes |-> <<>>]
    ELSE LET new_child_node == remove_desired_variable_refs(Head(children), to_remove)
             rest == remove_children(Tail(children), to_remove, in_body, node_has_body)
         IN IF new_child_node.raised THEN [raised |-> TRUE, nodes |-> <<>>]
            ELSE IF new_child_node.removed /\ node_has_body /\ ~in_body
            THEN [raised |-> TRUE, nodes |-> <<>>]
            ELSE IF rest.raised THEN rest
            ELSE IF new_child_node.removed /\ node_has_body THEN rest
            ELSE [rest EXCEPT !.nodes = <<new_child_node.node>> \o @]

remove_specific_variables(text, to_remove) ==
    LET tree == ast_parse(text)
        new_tree == remove_desired_variable_refs(Module(tree.stmts), to_remove)
    IN IF ~tree.ok THEN Raised("SyntaxError")
       ELSE IF new_tree.raised THEN Raised("ValueError")
       ELSE IF new_tree.removed THEN Returned(<<>>)
       ELSE Returned(ast_unparse(new_tree.node))

(***************************************************************************)
(* The specification of remove_specific_variables: snippets that define    *)
(* and use db and keep, at the top level and in blocks.                    *)
(***************************************************************************)
\* db = Connect()
AssignDb == Assign(<<Name("db", "Store")>>, Call(Name("Connect", "Load"), <<>>))
\* db.query()
UseDb == Expr(Call(Attribute(Name("db", "Load"), "query"), <<>>))
\* keep = 1
AssignKeep == Assign(<<Name("keep", "Store")>>, Constant("1"))

RemoveStmts ==
    { AssignDb, UseDb, AssignKeep,
      Assign(<<Name("keep", "Store"), Name("db", "Store")>>, Constant("1")),
                                                     \* keep = db = 1
      FunctionDef("db", <<UseDb>>),                  \* def db(): db.query()
      FunctionDef("f", <<AssignDb, AssignKeep>>),    \* def f(): db = ...; keep = 1
      ClassDef("db", <<AssignKeep>>),                \* class db: keep = 1
      If(Name("keep", "Load"), <<AssignDb, UseDb>>, <<>>),
                                                     \* if keep: db = ...; db.query()
      If(Name("keep", "Load"), <<UseDb>>, <<AssignKeep>>),
                                                     \* if keep: ... else: keep = 1
      If(Name("keep", "Load"), <<AssignKeep>>, <<AssignDb, UseDb>>) }
                                                     \* if keep: ... else: db = ...

RemoveNames == {{"db"}, {"db", "database"}, {"db", "keep"}}

InitRemove ==
    /\ pc = "source"
    /\ code \in {ast_unparse(Module(body)) : body \in SeqsUpTo(RemoveStmts, MaxStmts)}
    /\ arg \in [to_remove : RemoveNames]
    /\ out = Returned(<<>>)
    /\ i = 0

\* remove_specific_variables(code, to_remove)
RemoveSpecificVariables ==
    /\ pc = "source"
    /\ pc' = "remove_specific_variables"
    /\ out' = remove_specific_variables(code, arg.to_remove)
    /\ UNCHANGED <<code, arg, i>>

NextRemove == RemoveSpecificVariables

SpecRemove == InitRemove /\ [][NextRemove]_vars

(***************************************************************************)
(* The claims about remove_specific_variables, stated on the text.         *)
(***************************************************************************)
\* the node refers to name n: a Name with that id anywhere in it, or the
\* name of the function or class it defines
Mentions(node, n) ==
    \E k \in 1..Len(preorder(node)) :
        \/ preorder(node)[k].id = n
        \/ /\ preorder(node)[k].kind \in {"FunctionDef", "ClassDef"}
           /\ preorder(node)[k].name = n

\* line j is the header (or `else:`) of a block that encloses line k
Encloses(lines, j, k) ==
    /\ j < k
    /\ \A m \in (j + 1)..k : lines[m].ind > lines[j].ind

\* line k holds the definition of a target name: an assignment with a bare
\* name target among the names, a def or class named by one of them
DefinesTarget(lines, k, names) ==
    \/ /\ lines[k].node.kind = "Assign"
       /\ \E t \in 1..lines[k].node.ntargets :
              \E n \in names : lines[k].node.head[t] = Name(n, "Store")
    \/ /\ lines[k].node.kind \in {"FunctionDef", "ClassDef"}
       /\ lines[k].node.name \in names

\* line k is neither such a definition nor inside one
Kept(lines, k, names) ==
    /\ ~DefinesTarget(lines, k, names)
    /\ \A j \in 1..(k - 1) :
           Encloses(lines, j, k) => ~DefinesTarget(lines, j, names)

RECURSIVE KeptFrom(_, _, _)
KeptFrom(lines, k, names) ==
    IF k > Len(lines) THEN <<>>
    ELSE (IF Kept(lines, k, names) THEN <<lines[k]>> ELSE <<>>)
         \o KeptFrom(lines, k + 1, names)

\* the text without the definitions of the names (and what they enclose)
KeptLines(lines, names) == KeptFrom(lines, 1, names)

\* a definition of a target name stands directly in an `else:` block, and
\* in no definition that is removed as a whole
DefinesTargetInElse(lines, names) ==
    \E k \in 1..Len(lines) :
        /\ DefinesTarget(lines, k, names)
        /\ \A j \in 1..(k - 1) :
               Encloses(lines, j, k) => ~DefinesTarget(lines, j, names)
        /\ \E j \in 1..(k - 1) :
               /\ Encloses(lines, j, k)
               /\ lines[j].ind + 1 = lines[k].ind
               /\ lines[j].kind = "else"

NoneNode == Node("None")

Transformer(class, module_name) == [class |-> class, module_name |-> module_name]

\* IfBlockRemover.visit_If, given what generic_visit returns for the node
visit_If(node, visited) ==
    IF node.head[1].kind = "Name" /\ node.head[1].id = "TYPE_CHECKING"
    THEN If(node.head[1], <<Pass>>, node.orelse)
    ELSE IF \/ node.head[1] = Constant("False")
            \/ /\ node.head[1].kind = "Attribute"
               /\ node.head[1].head[1].kind = "Name"
               /\ node.head[1].head[1].id = "typing"
               /\ node.head[1].name = "TYPE_CHECKING"
    THEN NoneNode
    ELSE visited

\* visit_Import returning None for an import that names nothing else.
visit_Import_dropping(self, node) ==
    LET names == SelectSeq(node.head, LAMBDA a : a.name # self.module_name) IN
    IF names # <<>> THEN [node EXCEPT !.head = names] ELSE NoneNode

\* ImportRemover.visit_Import
visit_Import(self, node) ==
    LET names == SelectSeq(node.head, LAMBDA a : a.name # self.module_name) IN
    IF names # <<>> THEN [node EXCEPT !.head = names] ELSE Pass

\* ImportRemover.visit_ImportFrom
visit_ImportFrom(self, node) ==
    IF node.module = self.module_name THEN Pass ELSE node

\* RemoveLocalImports.visit_ImportFrom
local_visit_ImportFrom(node) ==
    IF node.level > 0 THEN NoneNode ELSE node

RECURSIVE visit(_, _)
RECURSIVE generic_visit(_, _)
RECURSIVE visit_list(_, _)
\* NodeVisitor.visit: visit_<class of the node> if self defines it,
\* generic_visit otherwise
visit(self, node) ==
    CASE self.class = "IfBlockRemover" /\ node.kind = "If" ->
             visit_If(node, generic_visit(self, node))
      [] self.class = "ImportRemover" /\ node.kind = "Import" ->
             visit_Import(self, node)
      [] self.class = "ImportRemover" /\ node.kind = "ImportFrom" ->
             visit_ImportFrom(self, node)
      [] self.class = "RemoveLocalImports" /\ node.kind = "ImportFrom" ->
             local_visit_ImportFrom(node)
      [] OTHER -> generic_visit(self, node)

\* NodeTransformer.generic_visit: every child is replaced by what visit
\* returns for it, and dropped from its list if that is None
generic_visit(self, node) ==
    [node EXCEPT !.head = visit_list(self, node.head),
                 !.body = visit_list(self, node.body),
                 !.orelse = visit_list(self, node.orelse)]

visit_list(self, old_value) ==
    IF old_value = <<>> THEN <<>>
    ELSE LET value == visit(self, Head(old_value)) IN
         (IF value = NoneNode THEN <<>> ELSE <<value>>)
         \o visit_list(self, Tail(old_value))

\* parse, transformer.visit(tree), unparse
transform(self, text) ==
    LET tree == ast_parse(text) IN
    IF ~tree.ok THEN Raised("SyntaxError")
    ELSE Returned(ast_unparse(visit(self, Module(tree.stmts))))

remove_if_falsey_blocks(text) == transform(Transformer("IfBlockRemover", ""), text)

remove_import(text, module_name) ==
    IF module_name = "" THEN Returned(text)   \* warns, returns code
    ELSE transform(Transformer("ImportRemover", module_name), text)

remove_local_imports(text) == transform(Transformer("RemoveLocalImports", ""), text)

(***************************************************************************)
(* SpecLocal: remove_local_imports applied to a snippet, then applied to   *)
(* its own result.  code is a text: the argument of the latest call.       *)
(***************************************************************************)
\* from .local import a
RelImport == ImportFrom("local", <<alias("a", "")>>, 1)
\* from . import x
RelImportDot == ImportFrom("", <<alias("x", "")>>, 1)
\* from math import floor
AbsImport == ImportFrom("math", <<alias("floor", "")>>, 0)

LocalStmts ==
    { RelImport, RelImportDot, AbsImport, AssignKeep,
      FunctionDef("f", <<RelImportDot>>),
      FunctionDef("f", <<RelImport, AssignKeep>>),
      If(Name("x", "Load"), <<RelImport>>, <<AssignKeep>>),
      If(Name("x", "Load"), <<AssignKeep>>, <<RelImport>>),
      ClassDef("C", <<FunctionDef("f", <<RelImport>>)>>) }

InitLocal ==
    /\ pc = "source"
    /\ code \in {ast_unparse(Module(body)) : body \in SeqsUpTo(LocalStmts, MaxStmts)}
    /\ arg = <<>>
    /\ out = Returned(<<>>)
    /\ i = 0

\* result = remove_local_imports(code)
RemoveLocalImports ==
    /\ pc = "source"
    /\ out' = remove_local_imports(code)
    /\ pc' = "once"
    /\ UNCHANGED <<code, arg, i>>

\* remove_local_imports(result)
RemoveLocalImportsAgain ==
    /\ pc = "once"
    /\ out.raised = ""
    /\ code' = out.text
    /\ out' = remove_local_imports(out.text)
    /\ pc' = "twice"
    /\ UNCHANGED <<arg, i>>

NextLocal == RemoveLocalImports \/ RemoveLocalImportsAgain

SpecLocal == InitLocal /\ [][NextLocal]_vars

\* C5: applying remove_local_imports to its own result succeeds and
\* returns that result unchanged.
C5_SecondApplicationChangesNothing ==
    pc = "twice" => out = Returned(code)

(***************************************************************************)
(* SpecImport: remove_import(code, module_name).  code is a text.          *)
(***************************************************************************)
ImportOs == Import(<<alias("os", "")>>)
ImportOsSys == Import(<<alias("os", ""), alias("sys", "")>>)

ImportStmts ==
    { ImportOs, ImportOsSys,
      Import(<<alias("sys", ""), alias("os", "o")>>),
      Import(<<alias("os.path", "")>>),
      ImportFrom("os", <<alias("path", "")>>, 0),
      ImportFrom("os", <<alias("z", "")>>, 1),
      ImportFrom("sys", <<alias("path", "")>>, 0),
      AssignKeep,
      FunctionDef("f", <<ImportOs>>),
      If(Name("x", "Load"), <<ImportOsSys>>,
         <<ImportFrom("os", <<alias("path", "")>>, 0)>>) }

ImportModules == {"os", "sys", ""}

InitImport ==
    /\ pc = "source"
    /\ code \in {ast_unparse(Module(body)) : body \in SeqsUpTo(ImportStmts, MaxStmts)}
    /\ arg \in [module_name : ImportModules]
    /\ out = Returned(<<>>)
    /\ i = 0

RemoveImport ==
    /\ pc = "source"
    /\ out' = remove_import(code, arg.module_name)
    /\ pc' = "remove_import"
    /\ UNCHANGED <<code, arg, i>>

NextImport == RemoveImport

SpecImport == InitImport /\ [][NextImport]_vars

IsImportLine(line) == line.kind = "stmt" /\ line.node.kind = "Import"
IsImportFromLine(line, m) ==
    line.kind = "stmt" /\ line.node.kind = "ImportFrom" /\ line.node.module = m

\* the aliases of an import line that do not name m exactly, in order
OtherAliases(line, m) == SelectSeq(line.node.head, LAMBDA a : a.name # m)

\* the line is an import statement that is left without an alias, or a
\* from-import of m
LosesEverything(line, m) ==
    \/ IsImportLine(line) /\ OtherAliases(line, m) = <<>>
    \/ IsImportFromLine(line, m)

\* the line as it is expected after the removal of m
LineWithout(line, m) ==
    IF LosesEverything(line, m) THEN Line(line.ind, "stmt", Pass)
    ELSE IF IsImportLine(line)
    THEN [line EXCEPT !.node.head = OtherAliases(line, m)]
    ELSE line

\* C6 as stated: the statements left without an alias and the
\* from-imports of m are dropped from the text; the other import
\* statements keep their other aliases in order; every other line is
\* unchanged.
C6_EmptiedImportsDropped ==
    pc = "remove_import" /\ arg.module_name # "" =>
        /\ out.raised = ""
        /\ out.text =
              LET kept == SelectSeq(code,
                              LAMBDA line : ~LosesEverything(line, arg.module_name))
              IN [k \in 1..Len(kept) |-> LineWithout(kept[k], arg.module_name)]

\* C6 amended: line for line, an import statement keeps its aliases that
\* do not name m exactly, in order; a statement left without an alias and
\* every from-import whose module is m (relative ones too) becomes
\* `pass` in its place; every other line is unchanged.
C6_EmptiedImportsBecomePass ==
    pc = "remove_import" /\ arg.module_name # "" =>
        /\ out.raised = ""
        /\ Len(out.text) = Len(code)
        /\ \A k \in 1..Len(code) :
              out.text[k] = LineWithout(code[k], arg.module_name)

\* an import nested in a block lost one alias and kept the other, and
\* another statement became `pass`
C6_Witness ==
    /\ pc = "remove_import"
    /\ arg.module_name = "os"
    /\ \E k \in 1..Len(code) :
          /\ code[k] = Line(1, "stmt", ImportOsSys)
          /\ out.text[k] = Line(1, "stmt", Import(<<alias("sys", "")>>))
    /\ \E k \in 1..Len(code) :
          /\ code[k].node # Pass
          /\ out.text[k].node = Pass

(***************************************************************************)
(* SpecIf: remove_if_falsey_blocks(code).  code is a text.                 *)
(***************************************************************************)
TypeChecking == Name("TYPE_CHECKING", "Load")
TypingTypeChecking == Attribute(Name("typing", "Load"), "TYPE_CHECKING")

IfTests == {TypeChecking, TypingTypeChecking, Constant("False"), Name("x", "Load")}

\* an if statement without an if statement inside
InnerIfs == {If(test, <<AssignKeep>>, <<>>) : test \in IfTests}

\* if statements with if statements in either branch, and an if statement
\* in the body of a function
IfStmts ==
    {If(test, body, orelse) :
        test \in IfTests,
        body \in {<<AssignKeep>>} \cup {<<inner>> : inner \in InnerIfs},
        orelse \in {<<>>, <<AssignKeep>>} \cup {<<inner>> : inner \in InnerIfs}}
    \cup {FunctionDef("f", <<inner>>) : inner \in InnerIfs}

InitIf ==
    /\ pc = "source"
    /\ code \in {ast_unparse(Module(<<stmt>>)) : stmt \in IfStmts}
                \cup {ast_unparse(Module(<<stmt, AssignKeep>>)) : stmt \in IfStmts}
    /\ arg = <<>>
    /\ out = Returned(<<>>)
    /\ i = 0

RemoveIfFalseyBlocks ==
    /\ pc = "source"
    /\ out' = remove_if_falsey_blocks(code)
    /\ pc' = "remove_if_falsey_blocks"
    /\ UNCHANGED <<code, arg, i>>

NextIf == RemoveIfFalseyBlocks

SpecIf == InitIf /\ [][NextIf]_vars

IsIfLine(line) == line.kind = "header" /\ line.node.kind = "If"

\* the block under the header at position k is the single line `pass`
BodyIsPass(text, k) ==
    /\ k + 1 <= Len(text)
    /\ text[k + 1] = Line(text[k].ind + 1, "stmt", Pass)
    /\ k + 2 <= Len(text) => text[k + 2].ind <= text[k].ind

\* C10: in the result no if statement is left, at any depth or in any
\* branch, whose test is the constant False or typing.TYPE_CHECKING, and
\* every if statement whose test is the bare name TYPE_CHECKING has the
\* single statement `pass` as its body.
C10_EveryIfTreated ==
    pc = "remove_if_falsey_blocks" =>
        /\ out.raised = ""
        /\ \A k \in 1..Len(out.text) :
              IsIfLine(out.text[k]) =>
                 /\ out.text[k].node.head[1] \notin {Constant("False"), TypingTypeChecking}
                 /\ out.text[k].node.head[1] = TypeChecking => BodyIsPass(out.text, k)

(***************************************************************************)
(* The text of an expression: a str is the sequence of its lexemes (an     *)
(* identifier, one of ( ) , . or a blank), so that a function call hint    *)
(* can be any string, parsable or not.  An Optional[str] is a sequence of  *)
(* at most one str: <<>> is None.                                          *)
(***************************************************************************)
NoStr == <<>>
Str(text) == <<text>>

Punctuation == {"(", ")", ",", ".", "...", " "}
IsName(lexeme) == lexeme \notin Punctuation

RECURSIVE tokenize(_)
\* the tokens of a text: blanks skipped, three dots in a row are the
\* Ellipsis token
tokenize(text) ==
    IF text = <<>> THEN <<>>
    ELSE IF Head(text) = " " THEN tokenize(Tail(text))
    ELSE IF Len(text) >= 3 /\ SubSeq(text, 1, 3) = <<".", ".", ".">>
    THEN <<"...">> \o tokenize(SubSeq(text, 4, Len(text)))
    ELSE <<Head(text)>> \o tokenize(Tail(text))

\* results of the expression parser: a node (or the elts of a list of
\* expressions, comma telling that a comma was read) and the position
\* after it
NoParse == [ok |-> FALSE, node |-> NoneNode, elts |-> <<>>, comma |-> FALSE, pos |-> 0]
Parsed(node, pos) == [NoParse EXCEPT !.ok = TRUE, !.node = node, !.pos = pos]

At(toks, pos) == IF pos <= Len(toks) THEN toks[pos] ELSE "<EOF>"

RECURSIVE parse_primary(_, _)
RECURSIVE parse_trailers(_, _, _)
RECURSIVE parse_expressions(_, _)
RECURSIVE parse_more_expressions(_, _, _)

\* '(' inner ')': the expression in parentheses, or a tuple
group(toks, inner) ==
    IF ~inner.ok \/ At(toks, inner.pos) # ")" THEN NoParse
    ELSE IF Len(inner.elts) = 1 /\ ~inner.comma
    THEN Parsed(inner.elts[1], inner.pos + 1)
    ELSE Parsed(Tuple(inner.elts, "Load"), inner.pos + 1)

\* atom: NAME | '...' | '(' ')' | '(' expressions ')'
parse_atom(toks, pos) ==
    IF At(toks, pos) = "<EOF>" THEN NoParse
    ELSE IF At(toks, pos) = "..." THEN Parsed(Constant("..."), pos + 1)
    ELSE IF IsName(At(toks, pos)) THEN Parsed(Name(At(toks, pos), "Load"), pos + 1)
    ELSE IF At(toks, pos) # "(" THEN NoParse
    ELSE IF At(toks, pos + 1) = ")" THEN Parsed(Tuple(<<>>, "Load"), pos + 2)
    ELSE group(toks, parse_expressions(toks, pos + 1))

\* the trailers that follow an atom
after_atom(toks, atom) ==
    IF ~atom.ok THEN NoParse ELSE parse_trailers(toks, atom.pos, atom.node)

\* primary: atom ('.' NAME | '(' [arguments] ')')*
parse_primary(toks, pos) == after_atom(toks, parse_atom(toks, pos))

\* func '(' args ')'
call_trailer(toks, func, args) ==
    IF ~args.ok \/ At(toks, args.pos) # ")" THEN NoParse
    ELSE [Parsed(Call(func, args.elts), args.pos + 1) EXCEPT !.comma = TRUE]

\* one trailer of node at pos (comma: there is one), or none
trailer(toks, pos, node) ==
    IF At(toks, pos) = "."
    THEN IF At(toks, pos + 1) # "<EOF>" /\ IsName(At(toks, pos + 1))
         THEN [Parsed(Attribute(node, At(toks, pos + 1)), pos + 2) EXCEPT !.comma = TRUE]
         ELSE NoParse
    ELSE IF At(toks, pos) = "("
    THEN IF At(toks, pos + 1) = ")"
         THEN [Parsed(Call(node, <<>>), pos + 2) EXCEPT !.comma = TRUE]
         ELSE call_trailer(toks, node, parse_expressions(toks, pos + 1))
    ELSE Parsed(node, pos)

more_trailers(toks, found) ==
    IF ~found.ok THEN NoParse
    ELSE IF ~found.comma THEN found
    ELSE parse_trailers(toks, found.pos, found.node)

parse_trailers(toks, pos, node) == more_trailers(toks, trailer(toks, pos, node))

first_expression(toks, first) ==
    IF ~first.ok THEN NoParse
    ELSE parse_more_expressions(toks, first.pos, <<first.node>>)

\* expression (',' expression)* [',']
parse_expressions(toks, pos) == first_expression(toks, parse_primary(toks, pos))

with_comma(parsed) == [parsed EXCEPT !.comma = TRUE]

\* what follows a comma at pos: another expression and more, or nothing
next_expression(toks, pos, elts, next) ==
    IF next.ok
    THEN with_comma(parse_more_expressions(toks, next.pos, elts \o <<next.node>>))
    ELSE [NoParse EXCEPT !.ok = TRUE, !.elts = elts, !.comma = TRUE, !.pos = pos + 1]

parse_more_expressions(toks, pos, elts) ==
    IF At(toks, pos) # ","
    THEN [NoParse EXCEPT !.ok = TRUE, !.elts = elts, !.pos = pos]
    ELSE next_expression(toks, pos, elts, parse_primary(toks, pos + 1))

\* the statement of the expressions parsed from a whole line
expression_statement(toks, parsed) ==
    IF ~parsed.ok \/ parsed.pos <= Len(toks) THEN NoParse
    ELSE IF Len(parsed.elts) = 1 /\ ~parsed.comma
    THEN Parsed(Expr(parsed.elts[1]), parsed.pos)
    ELSE Parsed(Expr(Tuple(parsed.elts, "Load")), parsed.pos)

\* the statement of a tokenized line
parse_tokens(toks) == expression_statement(toks, parse_expressions(toks, 1))

\* ast.parse(text) of a one-line text: the expression statement, or
\* SyntaxError (ok = FALSE)
parse_expression_statement(text) ==
    IF text = <<>> \/ Head(text) = " " THEN NoParse
    ELSE parse_tokens(tokenize(text))

RECURSIVE unparse_expression(_)
RECURSIVE unparse_items(_)
\* ast.unparse(node) of an expression node
unparse_expression(node) ==
    CASE node.kind = "Name" -> <<node.id>>
      [] node.kind = "Constant" -> <<".", ".", ".">>
      [] node.kind = "Attribute" ->
             unparse_expression(node.head[1]) \o <<".", node.name>>
      [] node.kind = "Call" ->
             unparse_expression(node.head[1])
             \o <<"(">> \o unparse_items(Tail(node.head)) \o <<")">>
      [] node.kind = "Tuple" ->
             <<"(">> \o unparse_items(node.head)
             \o (IF Len(node.head) = 1 THEN <<",">> ELSE <<>>) \o <<")">>

\* the items of a tuple or of an argument list, separated by ", "
unparse_items(items) ==
    IF items = <<>> THEN <<>>
    ELSE unparse_expression(Head(items))
         \o (IF Len(items) > 1 THEN <<",", " ">> ELSE <<>>)
         \o unparse_items(Tail(items))

RECURSIVE first_call(_)
\* next(node for node in ast.walk(tree) if isinstance(node, ast.Call)):
\* breadth first, todo being the queue of ast.walk
first_call(todo) ==
    IF todo = <<>> THEN NoneNode
    ELSE IF Head(todo).kind = "Call" THEN Head(todo)
    ELSE first_call(Tail(todo) \o iter_child_nodes(Head(todo)))

RECURSIVE split_head(_)
\* text.split("(")[0]
split_head(text) ==
    IF text = <<>> \/ Head(text) = "(" THEN <<>>
    ELSE <<Head(text)>> \o split_head(Tail(text))

Contains(text, lexeme) == \E k \in 1..Len(text) : text[k] = lexeme

(***************************************************************************)
(* extract_function_details                                                *)
(***************************************************************************)
DEFAULT_ARGS == <<<<"db">>>>

Details(function_name, args) ==
    [raised |-> "", function_name |-> function_name, args |-> args]
DetailsRaised(exception) ==
    [raised |-> exception, function_name |-> NoStr, args |-> <<>>]

\* the return of line 311: func.id and the source of each argument
call_details(node) ==
    IF node.head[1].kind # "Name" THEN DetailsRaised("AttributeError")
    ELSE Details(Str(<<node.head[1].id>>),
                 [k \in 1..(Len(node.head) - 1) |->
                      unparse_expression(node.head[k + 1])])

extract_function_details(function_call, default_args) ==
    LET function_name == split_head(function_call)
        tree == parse_expression_statement(function_call)
        node == first_call(<<tree.node>>)
    IN IF ~Contains(function_call, "(")
       THEN Details(Str(function_name), default_args)
       ELSE IF ~tree.ok \/ node = NoneNode THEN Details(NoStr, <<>>)
       ELSE IF Len(node.head) = 1 THEN Details(Str(function_name), default_args)
       ELSE call_details(node)

(***************************************************************************)
(* SpecHint: extract_function_details(function_call, default_args) on      *)
(* every short string over the lexemes of a call.                          *)
(***************************************************************************)
\* Longest function call hint (number of lexemes) drawn as an input.
MaxHint == 6

HintLexemes == {"f", "(", ")", ",", "."}

\* the strings drawn: every identifier in them is one lexeme
Hints ==
    {text \in SeqsUpTo(HintLexemes, MaxHint) :
        \A k \in 1..(Len(text) - 1) : ~(IsName(text[k]) /\ IsName(text[k + 1]))}

InitHint ==
    /\ pc = "source"
    /\ code = <<>>
    /\ arg \in [function_call : Hints, default_args : {DEFAULT_ARGS}]
    /\ out = Details(NoStr, <<>>)
    /\ i = 0

ExtractFunctionDetails ==
    /\ pc = "source"
    /\ out' = extract_function_details(arg.function_call, arg.default_args)
    /\ pc' = "extract_function_details"
    /\ UNCHANGED <<code, arg, i>>

NextHint == ExtractFunctionDetails

SpecHint == InitHint /\ [][NextHint]_vars

\* the hint parses to a call
HintCall(text) ==
    LET tree == parse_expression_statement(text) IN
    IF tree.ok /\ tree.node.head[1].kind = "Call" THEN tree.node.head[1] ELSE NoneNode

\* C9: extract_function_details returns, without raising, for every
\* string: (call_str, default_args) when it has no parenthesis; (None, [])
\* when it has one but cannot be parsed; the default arguments when it
\* parses to a call without arguments; the source text of each argument,
\* in order, when it parses to a call with arguments, whatever is called.
C9_ReturnsForEveryString ==
    pc = "extract_function_details" =>
        LET text == arg.function_call
            call == HintCall(text) IN
        /\ out.raised = ""
        /\ ~Contains(text, "(") => out = Details(Str(text), arg.default_args)
        /\ Contains(text, "(") /\ ~parse_expression_statement(text).ok
              => out = Details(NoStr, <<>>)
        /\ call # NoneNode /\ Len(call.head) = 1 => out.args = arg.default_args
        /\ call # NoneNode /\ Len(call.head) > 1
              => out.args = [k \in 1..(Len(call.head) - 1) |->
                                 unparse_expression(call.head[k + 1])]

(***************************************************************************)
(* SpecCall: add_function_call(code, function_call, args, multiple), with  *)
(* its loop over tree.body taken one iteration at a time.  arg holds the   *)
(* arguments and the locals function_name, func_call and body (tree.body). *)
(***************************************************************************)
\* the id given to ast.Name: the identifier, "" for a name that is None or
\* is no single identifier (it equals the name of no definition)
name_id(function_name) ==
    IF Len(function_name) = 1 /\ Len(function_name[1]) = 1
    THEN function_name[1][1] ELSE ""

\* arg_value(arg): ast.parse(arg).body[0].value
arg_value(text) == parse_expression_statement(text).node.head[1]

\* func_call: the statement function_name(*args)
new_func_call(function_name, args) ==
    Expr(Call(Name(name_id(function_name), "Load"),
              [k \in 1..Len(args) |-> arg_value(args[k])]))

\* list.insert(index, item)
insert(list, index, item) ==
    SubSeq(list, 1, index) \o <<item>> \o SubSeq(list, index + 1, Len(list))

is_function_to_call(node, function_name) ==
    node.kind = "FunctionDef" /\ Str(<<node.name>>) = function_name

\* One iteration that breaks after the first insertion whatever multiple is.
loop_body_breaking(body, index, function_name, func_call, multiple) ==
    IF is_function_to_call(body[index + 1], function_name)
    THEN [body |-> insert(body, index + 1, func_call), break |-> TRUE]
    ELSE [body |-> body, break |-> FALSE]

\* one iteration of the loop, node being body[index] (counted from 0)
loop_body(body, index, function_name, func_call, multiple) ==
    IF is_function_to_call(body[index + 1], function_name)
    THEN [body |-> insert(body, index + 1, func_call), break |-> ~multiple]
    ELSE [body |-> body, break |-> FALSE]

DefF == FunctionDef("f", <<Pass>>)
DefG == FunctionDef("g", <<Pass>>)
\* f(db)
CallF == Expr(Call(Name("f", "Load"), <<Name("db", "Load")>>))

CallStmts ==
    { DefF, DefG, CallF,
      ClassDef("f", <<Pass>>),
      If(Name("x", "Load"), <<DefF>>, <<>>) }

\* f    f(g)    g((f,),f)    f(    f.g(f)
CallHints ==
    { <<"f">>,
      <<"f", "(", "g", ")">>,
      <<"g", "(", "(", "f", ",", ")", ",", "f", ")">>,
      <<"f", "(">>,
      <<"f", ".", "g", "(", "f", ")">> }

InitCall ==
    /\ pc = "source"
    /\ code \in {ast_unparse(Module(body)) : body \in SeqsUpTo(CallStmts, MaxStmts)}
    /\ arg \in [function_call : CallHints, args : {DEFAULT_ARGS}, multiple : BOOLEAN,
                function_name : {NoStr}, func_call : {NoneNode}, body : {<<>>}]
    /\ out = Returned(<<>>)
    /\ i = 0

\* lines 331-345: the details of the call, the tree, the call statement
Resolve ==
    /\ pc = "source"
    /\ LET details == extract_function_details(arg.function_call, arg.args)
           tree == ast_parse(code)
       IN IF details.raised # ""
          THEN /\ out' = Raised(details.raised)
               /\ pc' = "raised"
               /\ UNCHANGED <<arg, i>>
          ELSE IF \/ ~tree.ok
                  \/ \E k \in 1..Len(details.args) :
                         ~parse_expression_statement(details.args[k]).ok
          THEN /\ out' = Raised("SyntaxError")
               /\ pc' = "raised"
               /\ UNCHANGED <<arg, i>>
          ELSE /\ arg' = [arg EXCEPT
                             !.function_name = details.function_name,
                             !.args = details.args,
                             !.func_call = new_func_call(details.function_name,
                                                         details.args),
                             !.body = tree.stmts]
               /\ i' = 0
               /\ pc' = "loop"
               /\ UNCHANGED out
    /\ UNCHANGED code

\* lines 348-352: the iterator yields tree.body[i]
Iterate ==
    /\ pc = "loop"
    /\ i < Len(arg.body)
    /\ LET step == loop_body(arg.body, i, arg.function_name, arg.func_call,
                             arg.multiple)
       IN /\ arg' = [arg EXCEPT !.body = step.body]
          /\ IF step.break
             THEN pc' = "return" /\ i' = i
             ELSE pc' = "loop" /\ i' = i + 1
    /\ UNCHANGED <<code, out>>

\* the iterator is exhausted
Exhausted ==
    /\ pc = "loop"
    /\ i >= Len(arg.body)
    /\ pc' = "return"
    /\ UNCHANGED <<code, arg, out, i>>

\* line 354
ReturnUnparsed ==
    /\ pc = "return"
    /\ out' = Returned(ast_unparse(Module(arg.body)))
    /\ pc' = "add_function_call"
    /\ UNCHANGED <<code, arg, i>>

NextCall == Resolve \/ Iterate \/ Exhausted \/ ReturnUnparsed

SpecCall == InitCall /\ [][NextCall]_vars

RECURSIVE WithCalls(_, _, _, _)
\* the statements, each definition of the name followed by the call: every
\* one of them, or the first only
WithCalls(body, function_name, func_call, multiple) ==
    IF body = <<>> THEN <<>>
    ELSE IF is_function_to_call(Head(body), function_name)
    THEN <<Head(body), func_call>>
         \o (IF multiple
             THEN WithCalls(Tail(body), function_name, func_call, multiple)
             ELSE Tail(body))
    ELSE <<Head(body)>> \o WithCalls(Tail(body), function_name, func_call, multiple)

MatchingDefs(body, function_name) ==
    {k \in 1..Len(body) : is_function_to_call(body[k], function_name)}

\* the result is the original statements, in order, with the call
\* statement after the first (multiple false) or after every (multiple
\* true) top-level definition of the resolved name, and nothing else;
\* text is the code argument, locals the locals at the return, result
\* what is returned
CallAfterEachDefinition(text, locals, result) ==
    LET original == ast_parse(text).stmts
        defs == MatchingDefs(original, locals.function_name) IN
    /\ result = Returned(ast_unparse(Module(
                    WithCalls(original, locals.function_name, locals.func_call,
                              locals.multiple))))
    /\ Len(locals.body) = Len(original)
           + (IF locals.multiple THEN Cardinality(defs)
              ELSE IF defs = {} THEN 0 ELSE 1)

\* the iterations the loop has left at most: the statements not yet
\* yielded, and one more for each definition among them that will get a
\* call statement after it
IterationsLeft ==
    (Len(arg.body) - i)
    + Cardinality({k \in (i + 1)..Len(arg.body) :
                      is_function_to_call(arg.body[k], arg.function_name)})

\* C7: with multiple=False one call statement is inserted, right after the
\* first matching top-level definition; with multiple=True one right after
\* each of them (none where no definition matches); no original statement
\* is removed, duplicated or reordered; and the loop over the list that is
\* being inserted into finishes: every iteration that does not leave the
\* loop lowers the number of iterations left, which is never negative.
C7_InsertsAndFinishes ==
    [][/\ pc' = "add_function_call" => CallAfterEachDefinition(code', arg', out')
       /\ pc = "loop" => /\ pc' \in {"loop", "return"}
                         /\ IterationsLeft >= 0
                         /\ pc' = "loop" => IterationsLeft' < IterationsLeft]_vars

\* two definitions of f, multiple=True, hint f(g): f(g) follows each
C7_Witness ==
    /\ pc = "add_function_call"
    /\ arg.multiple
    /\ arg.function_call = <<"f", "(", "g", ")">>
    /\ code = ast_unparse(Module(<<DefF, DefG, DefF>>))
    /\ LET call == Expr(Call(Name("f", "Load"), <<Name("g", "Load")>>)) IN
       out = Returned(ast_unparse(Module(<<DefF, call, DefG, DefF, call>>)))

(***************************************************************************)
(* class Empty.  A value is an object: its type, its identity and what it  *)
(* holds.  The methods are the functions of the class; an operation on an  *)
(* object goes to the method of its type.                                  *)
(***************************************************************************)
Object(type, id, value) == [type |-> type, id |-> id, value |-> value]

\* Empty(): the instance with that identity
Empty(id) == Object("Empty", id, "")
False == Object("bool", 0, "False")
EmptyString == Object("str", 0, "")
Nothing == Object("NoneType", 0, "None")
\* raised by next() on a generator that has returned
StopIteration == Object("StopIteration", 0, "")

__bool__(self) == False

\* __getattribute__ of some other instance.
__getattribute__another(self, _name) == Empty(self.id + 1)

__getattribute__(self, _name) == self

__getitem__(self, _key) == self

__get__(self, _args) == self

__call__(self, _args) == self

__str__(self) == EmptyString

__repr__(self) == EmptyString

__add__(self, other) == other

\* a generator object, and its frame: self and where the function is at
GeneratorObject == Object("generator", 0, "")
Generator(self, at) == [self |-> self, at |-> at]
__iter__(self) == Generator(self, "start")

\* next(generator): what it yields or raises, and the generator after it
next(generator) ==
    IF generator.at = "start"
    THEN [item |-> generator.self, generator |-> [generator EXCEPT !.at = "yield"]]
    ELSE [item |-> StopIteration, generator |-> [generator EXCEPT !.at = "returned"]]

(***************************************************************************)
(* SpecEmpty: operations on an Empty instance p, each applied to what the  *)
(* chain of accesses and calls has reached (subject); the chain is not     *)
(* followed into an object of another type.  code is the list of           *)
(* operations applied so far, out what the last one returned.              *)
(***************************************************************************)
\* Longest sequence of operations applied to the instance.
MaxChain == 3

AttrNames == {"property", "__class__", "__dict__"}
ItemKeys == {"item", "0"}
\* p itself, another Empty, a list, None
Operands(p) == {p, Empty(p.id + 1), Object("list", 3, "[1, 2, 3]"), Nothing}

IsEmpty(object) == object.type = "Empty"

InitEmpty ==
    /\ pc = "object"
    /\ code = <<>>
    /\ arg = [p |-> Empty(1), subject |-> Empty(1), other |-> Nothing,
              generator |-> Generator(Nothing, "returned"), items |-> <<>>]
    /\ out = Empty(1)
    /\ i = 0

\* an operation can be applied to the subject: no iteration is under way
CanApply ==
    /\ pc = "object"
    /\ Len(code) < MaxChain
    /\ IsEmpty(arg.subject)

\* subject.name: the chain continues from what it returns
GetAttribute == \E name \in AttrNames :
    /\ CanApply
    /\ code' = Append(code, "__getattribute__")
    /\ out' = __getattribute__(arg.subject, name)
    /\ arg' = [arg EXCEPT !.subject = __getattribute__(arg.subject, name)]
    /\ UNCHANGED <<pc, i>>

\* subject[key]
GetItem == \E key \in ItemKeys :
    /\ CanApply
    /\ code' = Append(code, "__getitem__")
    /\ out' = __getitem__(arg.subject, key)
    /\ arg' = [arg EXCEPT !.subject = __getitem__(arg.subject, key)]
    /\ UNCHANGED <<pc, i>>

\* subject(*args)
CallObject == \E args \in SeqsUpTo(Operands(arg.p), 1) :
    /\ CanApply
    /\ code' = Append(code, "__call__")
    /\ out' = __call__(arg.subject, args)
    /\ arg' = [arg EXCEPT !.subject = __call__(arg.subject, args)]
    /\ UNCHANGED <<pc, i>>

\* owner.attribute, the subject being a class attribute of the owner
GetDescriptor ==
    /\ CanApply
    /\ code' = Append(code, "__get__")
    /\ out' = __get__(arg.subject, <<Nothing, Nothing>>)
    /\ arg' = [arg EXCEPT !.subject = __get__(arg.subject, <<Nothing, Nothing>>)]
    /\ UNCHANGED <<pc, i>>

\* bool(subject)
Bool ==
    /\ CanApply
    /\ code' = Append(code, "__bool__")
    /\ out' = __bool__(arg.subject)
    /\ arg' = arg
    /\ UNCHANGED <<pc, i>>

\* str(subject)
StrOf ==
    /\ CanApply
    /\ code' = Append(code, "__str__")
    /\ out' = __str__(arg.subject)
    /\ arg' = arg
    /\ UNCHANGED <<pc, i>>

\* repr(subject)
Repr ==
    /\ CanApply
    /\ code' = Append(code, "__repr__")
    /\ out' = __repr__(arg.subject)
    /\ arg' = arg
    /\ UNCHANGED <<pc, i>>

\* subject + other
Add == \E other \in Operands(arg.p) :
    /\ CanApply
    /\ code' = Append(code, "__add__")
    /\ out' = __add__(arg.subject, other)
    /\ arg' = [arg EXCEPT !.other = other]
    /\ UNCHANGED <<pc, i>>

\* iter(subject): a fresh iteration
Iter ==
    /\ CanApply
    /\ code' = Append(code, "__iter__")
    /\ arg' = [arg EXCEPT !.generator = __iter__(arg.subject), !.items = <<>>]
    /\ pc' = "iterating"
    /\ i' = 0
    /\ out' = GeneratorObject

\* next(generator), until it raises StopIteration
NextItem ==
    /\ pc = "iterating"
    /\ LET step == next(arg.generator) IN
       /\ out' = step.item
       /\ arg' = [arg EXCEPT
                     !.generator = step.generator,
                     !.items = IF step.item = StopIteration THEN @
                               ELSE Append(@, step.item)]
       /\ i' = IF step.item = StopIteration THEN i ELSE i + 1
       /\ pc' = IF step.item = StopIteration THEN "object" ELSE "iterating"
    /\ UNCHANGED code

NextEmpty ==
    \/ GetAttribute \/ GetItem \/ CallObject \/ GetDescriptor
    \/ Bool \/ StrOf \/ Repr \/ Add \/ Iter \/ NextItem

SpecEmpty == InitEmpty /\ [][NextEmpty]_vars

LastOperation == IF code = <<>> THEN "" ELSE code[Len(code)]

\* C8: every sequence of attribute accesses, item accesses and calls on
\* an Empty instance p returns p itself and never fails; p is falsy;
\* str(p) and repr(p) are the empty string; each fresh iteration yields
\* one element, p itself, then stops; p + v returns v itself.
C8_EmptyDoesNothing ==
    /\ arg.subject = arg.p
    /\ LastOperation # "__iter__" => out # StopIteration
    /\ LastOperation \in {"__getattribute__", "__getitem__", "__call__", "__get__"}
          => out = arg.p
    /\ LastOperation = "__bool__" => out = False
    /\ LastOperation \in {"__str__", "__repr__"} => out = EmptyString
    /\ LastOperation = "__add__" => out = arg.other
    /\ LastOperation = "__iter__" =>
          /\ i = Len(arg.items) /\ i <= 1
          /\ \A k \in 1..Len(arg.items) : arg.items[k] = arg.p
          /\ arg.generator.at = "start" <=> i = 0 /\ pc = "iterating"
          /\ out = StopIteration <=> arg.generator.at = "returned"
          /\ arg.generator.at = "returned" => i = 1 /\ pc = "object"

\* p.property["item"](...) is p
C8_Witness ==
    /\ code = <<"__getattribute__", "__getitem__", "__call__">>
    /\ out = arg.p
    /\ arg.subject = Empty(1)

(***************************************************************************)
(* SpecTargets: find_defined_variables on assignments to every shape of    *)
(* target built from names, tuples and subscripts.  code is a module body. *)
(***************************************************************************)
StoreA == Name("a", "Store")
StoreB == Name("b", "Store")
StoreC == Name("c", "Store")
\* a[0] as a target
SubscriptA == Subscript(Name("a", "Load"), "Store")

TargetShapes ==
    { StoreA,                                                    \* a
      Tuple(<<StoreA, Tuple(<<StoreB, StoreC>>, "Store")>>, "Store"),
                                                                 \* a, (b, c)
      SubscriptA,                                                \* a[0]
      Subscript(Subscript(Name("a", "Load"), "Load"), "Store"),  \* a[0][0]
      Tuple(<<StoreB, SubscriptA>>, "Store"),                    \* b, a[0]
      Subscript(Tuple(<<Name("a", "Load"), Name("b", "Load")>>, "Load"), "Store") }
                                                                 \* (a, b)[0]

TargetStmts ==
    {Assign(<<target>>, Constant("1")) : target \in TargetShapes}
    \cup { Assign(<<StoreA, StoreB>>, Constant("1")),            \* a = b = 1
           AnnAssign(SubscriptA, Name("int", "Load"), Constant("1")),
                                                                 \* a[0]: int = 1
           For(StoreA, Tuple(<<>>, "Load"), <<Pass>>),           \* for a in (): pass
           Import(<<alias("a", "")>>),                           \* import a
           FunctionDef("a", <<Assign(<<StoreB>>, Constant("1"))>>),
                                                                 \* def a(): b = 1
           ClassDef("c", <<Pass>>) }                             \* class c: pass

InitTargets ==
    /\ pc = "parsed"
    /\ code \in SeqsUpTo(TargetStmts, MaxStmts)
    /\ arg = [missing_vars |-> {}, with_builtins |-> TRUE]
    /\ out = <<>>
    /\ i = 0

NextTargets == FindDefinedVariables

SpecTargets == InitTargets /\ [][NextTargets]_vars

RECURSIVE BaseNames(_)
\* the base names of a target: a name is its own, a tuple has those of its
\* elements, a subscript those of the container it indexes into
BaseNames(target) ==
    CASE target.kind = "Name" -> {target.id}
      [] target.kind = "Tuple" ->
             UNION {BaseNames(target.head[k]) : k \in 1..Len(target.head)}
      [] target.kind = "Subscript" -> BaseNames(target.head[1])
      [] OTHER -> {}

\* the base names of the targets of one assignment
AssignmentBaseNames(node) ==
    UNION {BaseNames(targets_of(node)[t]) : t \in 1..Len(targets_of(node))}

\* the base names of the targets of every assignment of the snippet
AssignedBaseNames(body) ==
    LET nodes == preorder(Module(body)) IN
    UNION {AssignmentBaseNames(nodes[k]) :
              k \in {n \in 1..Len(nodes) : nodes[n].kind \in {"Assign", "AnnAssign"}}}

\* C11: find_defined_variables returns exactly the base names of the
\* targets of all direct and annotated assignments anywhere in the
\* snippet, whatever the shape of the target; for-loop targets, imports
\* and function or class definitions contribute nothing.
C11_ExactlyTheBaseNames ==
    pc = "find_defined_variables" => out[1] = AssignedBaseNames(code)

(***************************************************************************)
(* remove_specific_variables and the statement list a definition is in     *)
(* (SpecRemove).                                                           *)
(***************************************************************************)
\* C12: a matching assignment, function or class is deleted from whichever
\* statement list contains it, a body or an else branch, at any depth:
\* nothing is raised, no placeholder is written, and every statement that
\* is neither a matching definition nor inside one is kept, in order, also
\* next to several adjacent matching statements.
C12_RemovedFromAnyStatementList ==
    pc = "remove_specific_variables" =>
        out = Returned(KeptLines(code, arg.to_remove))

(***************************************************************************)
(* SpecStar: find_variables on snippets with `from m import *`, m being a  *)
(* module that is not installed, one that fails while it is imported and   *)
(* one that resolves.  code is a module body.                              *)
(***************************************************************************)
Star(module) == ImportFrom(module, <<alias("*", "")>>, 0)

StarStmts ==
    { Star("missing"),                                           \* from missing import *
      Star("broken"),                                            \* from broken import *
      Star("math"),                                              \* from math import *
      ImportFrom("missing", <<alias("a", "b")>>, 0),             \* from missing import a as b
      Assign(<<Name("x", "Store")>>, Constant("1")),             \* x = 1
      Expr(Call(Name("print", "Load"), <<Name("y", "Load")>>)),  \* print(y)
      FunctionDef("f", <<Star("missing")>>) }                    \* def f(): from missing import *

InitStar ==
    /\ pc = "parsed"
    /\ code \in SeqsUpTo(StarStmts, MaxStmts)
    /\ arg = [missing_vars |-> {}, with_builtins |-> TRUE]
    /\ out = find_variables_call(<<>>, FALSE)
    /\ i = 0

\* find_variables(code, with_builtins)
FindVariablesCall ==
    /\ pc = "parsed"
    /\ \E with_builtins \in BOOLEAN :
          /\ out' = find_variables_call(code, with_builtins)
          /\ arg' = [arg EXCEPT !.with_builtins = with_builtins]
    /\ pc' = "find_variables"
    /\ UNCHANGED <<code, i>>

NextStar == FindVariablesCall

SpecStar == InitStar /\ [][NextStar]_vars

\* `from m import *` with a module that does not resolve
IsFailingStar(node) ==
    /\ node.kind = "ImportFrom"
    /\ node.head[1].name = "*"
    /\ ~import_module(node.module).ok

RECURSIVE WithoutFailingStars(_)
\* the statements without those wildcard imports, at any depth
WithoutFailingStars(stmts) ==
    IF stmts = <<>> THEN <<>>
    ELSE (IF IsFailingStar(Head(stmts)) THEN <<>>
          ELSE <<[Head(stmts) EXCEPT !.body = WithoutFailingStars(@),
                                     !.orelse = WithoutFailingStars(@)]>>)
         \o WithoutFailingStars(Tail(stmts))

\* C13: a `from m import *` whose module does not resolve, because it is
\* missing or because importing it raises, never makes find_variables
\* raise, adds no name to the defined set, and leaves the used and the
\* defined names what they are without that statement.
C13_FailingStarChangesNothing ==
    pc = "find_variables" =>
        /\ out.raised = ""
        /\ <<out.used_variables, out.all_variables>>
               = find_variables(WithoutFailingStars(code), arg.with_builtins)

====
